---- MODULE Spec2Model ----
(***************************************************************************)
(* ArbiterService (apps/gateway/src/services/arbiter.service.ts): the      *)
(* in-memory lock table and wait queue of the gateway, with the five        *)
(* operations the controller exposes: acquireLock, requestCoordination,    *)
(* releaseLock, getLockStatus and getQueuePosition.                        *)
(*                                                                         *)
(* Node runs every handler to its first await without interleaving.  None  *)
(* of the handlers changes locks or queue after an await (the only await   *)
(* expressions wrap calls to acquireLock, whose body has no await and so   *)
(* runs synchronously inside the caller), so each handler is one action.   *)
(***************************************************************************)
EXTENDS Integers, Sequences, FiniteSets, TLC

\* ---------------------------------------------------------------- inputs
Agents == {"a1", "a2", "a3"}
Resources == {"r1"}
QueueAgents == {"a1", "a2", "a3", "a4"}

\* 0 is the default of acquireLock
Priorities == {0, 5}

\* expiresAt: new Date(Date.now() + 30000)
DefaultTtlMs == 30000

\* The clock (Date.now(), milliseconds) is read at these instants: at start,
\* and just before, at and just after the expiry of a lease granted at start.
Instants == {0, DefaultTtlMs - 1, DefaultTtlMs, DefaultTtlMs + 1}

VARIABLES
    locks,      \* Map<string, BusinessLock>, as the set of its entries
    queue,      \* QueueEntry[], as a sequence
    now,        \* the wall clock, ms
    arrived,    \* history: the (agentId, resource) keys queued, in push order
    last,       \* the call that produced this state, and what it returned
    trip        \* history: the acquire .. release sequence one caller is in

vars == <<locks, queue, now, arrived, last, trip>>

\* ------------------------------------------------------------ Map<K, V>
MapGet(m, r) == {l \in m : l.resource = r}

MapSetKeepOld(m, r, lock) == m \cup {lock}

MapSet(m, r, lock) == {l \in m : l.resource # r} \cup {lock}

MapDeleteNothing(m, r) == m

MapDelete(m, r) == {l \in m : l.resource # r}

\* --------------------------------------------------------------- arrays
\* Array.prototype.findIndex with the predicate of getQueuePosition and
\* removeFromQueue: 0-based, -1 when absent.
FindIndex(q, a, r) ==
    LET hits == {i \in 1 .. Len(q) : q[i].agentId = a /\ q[i].resource = r}
    IN  IF hits = {} THEN -1
        ELSE (CHOOSE i \in hits : \A j \in hits : i <= j) - 1

\* this.queue.find(q => q.resource === resource): the first match, as a set
FindFirst(q, r) == IF q = <<>> THEN {} ELSE {q[1]}

FindByResource(q, r) ==
    LET hits == {i \in 1 .. Len(q) : q[i].resource = r}
    IN  IF hits = {} THEN {}
        ELSE {q[CHOOSE i \in hits : \A j \in hits : i <= j]}

\* splice(index, 1) with a 0-based index
Splice(q, index) ==
    [i \in 1 .. Len(q) - 1 |-> IF i <= index THEN q[i] ELSE q[i + 1]]

\* Array.prototype.sort((a, b) => b.priority - a.priority): stable (ES2019),
\* computed as an insertion sort that never moves an element past one the
\* comparator does not order strictly after it.
CompareUnstable(a, b) == IF b.priority >= a.priority THEN 1 ELSE -1

Compare(a, b) == b.priority - a.priority

RECURSIVE InsertSorted(_, _)
InsertSorted(s, e) ==
    IF s = <<>> THEN <<e>>
    ELSE IF Compare(s[Len(s)], e) > 0
         THEN Append(InsertSorted(SubSeq(s, 1, Len(s) - 1), e), s[Len(s)])
         ELSE Append(s, e)

RECURSIVE SortByPriority(_)
SortByPriority(q) ==
    IF q = <<>> THEN <<>>
    ELSE InsertSorted(SortByPriority(SubSeq(q, 1, Len(q) - 1)), q[Len(q)])

\* ------------------------------------------------------- return values
Null == [kind |-> "null"]
LockValue(l) == [kind |-> "lock", lock |-> l]
\* JavaScript values of the result fields that are not always numbers, tagged
\* with what they are: a number, a pending-or-resolved Promise, or NaN.
NumberOf(v) == [type |-> "number", value |-> v]
\* `position * 5000` where position is the un-awaited Promise<number>
NaN == [type |-> "NaN"]
\* the value of calling an async method without await
PromiseOf(v) == [type |-> "Promise", promise |-> v]

\* ------------------------------------------------------ ArbiterService
\* existingLock.expiresAt > new Date()   (the same test at lines 50, 80, 128)
NotExpiredInclusive(l, t) == l.expiresAt >= t

NotExpired(l, t) == l.expiresAt > t

\* priority > existingLock.priority
PreemptsAlso(priority, l) == priority >= l.priority

PreemptsNever(priority, l) == FALSE

Preempts(priority, l) == priority > l.priority

\* lock.lockedBy !== agentId, negated
OwnedByAnyone(l, agentId) == TRUE

OwnedBy(l, agentId) == l.lockedBy = agentId

removeFromQueueNothing(q, agentId, resource) == q

removeFromQueue(q, agentId, resource) ==
    LET index == FindIndex(q, agentId, resource)
    IN  IF index # -1 THEN Splice(q, index) ELSE q

addToQueueNothing(q, request, t) == q

addToQueueAlways(q, request, t) ==
    SortByPriority(Append(q, [agentId     |-> request.agentId,
                              resource    |-> request.resource,
                              priority    |-> request.priority,
                              requestedAt |-> t]))

addToQueue(q, request, t) ==
    LET existing == {i \in 1 .. Len(q) : q[i].agentId = request.agentId
                                          /\ q[i].resource = request.resource}
    IN  IF existing = {}
        THEN SortByPriority(Append(q, [agentId     |-> request.agentId,
                                       resource    |-> request.resource,
                                       priority    |-> request.priority,
                                       requestedAt |-> t]))
        ELSE q

getQueuePosition(q, agentId, resource) ==
    LET index == FindIndex(q, agentId, resource)
    IN  IF index = -1 THEN 0 ELSE index + 1

\* estimatedWaitMs: position * 5000
WaitPerPositionMs == 5000

\* const position = this.getQueuePosition(...): no await
Unawaited(v) == PromiseOf(v)

\* x * k: a number when x is one, NaN when x is an object such as a Promise
Times(x, k) == IF x.type = "number" THEN NumberOf(x.value * k) ELSE NaN

\* The result of a handler: the table and the queue it leaves, the clock at
\* its last reading, what it returns and what it wrote with console.log.
Result(ls, q, t, ret, log) ==
    [locks |-> ls, queue |-> q, now |-> t, ret |-> ret, log |-> log]

\* a lease whose length depends on the request: 1 ms at the default priority
BusinessLockVariableTtl(resource, agentId, priority, t, t2) ==
    [resource   |-> resource,
     lockedBy   |-> agentId,
     acquiredAt |-> t,
     expiresAt  |-> t2 + (IF priority > 0 THEN DefaultTtlMs ELSE 1),
     priority   |-> priority]

\* const lock: BusinessLock = { ... }
BusinessLock(resource, agentId, priority, t, t2) ==
    [resource   |-> resource,
     lockedBy   |-> agentId,
     acquiredAt |-> t,
     expiresAt  |-> t2 + DefaultTtlMs,
     priority   |-> priority]

\* an acquireLock without the `lockedBy !== agentId` test: the holder too
\* must outrank the live lock to replace it
acquireLockOwnerOutranks(ls, q, agentId, resource, priority, t, t2) ==
    LET existingLock == MapGet(ls, resource)
        held == {l \in existingLock : NotExpired(l, t)}
        heldByOther == {l \in held : l.lockedBy # agentId}
        lock == BusinessLock(resource, agentId, priority, t, t2)
    IN  IF held # {} /\ ~(\A l \in held : Preempts(priority, l))
        THEN Result(ls, q, t, Null, {})
        ELSE Result(MapSet(ls, resource, lock),
                    removeFromQueue(q, agentId, resource),
                    t2,
                    LockValue(lock),
                    {[preempted |-> l.lockedBy, by |-> agentId,
                      resource |-> resource] : l \in heldByOther})

\* an acquireLock that puts the holder it preempts back in the queue
acquireLockRequeues(ls, q, agentId, resource, priority, t, t2) ==
    LET existingLock == MapGet(ls, resource)
        heldByOther == {l \in existingLock :
                           NotExpired(l, t) /\ l.lockedBy # agentId}
        lock == BusinessLock(resource, agentId, priority, t, t2)
        q2 == IF heldByOther = {} THEN q
              ELSE LET l == CHOOSE x \in heldByOther : TRUE
                   IN  addToQueue(q, [agentId |-> l.lockedBy,
                                      resource |-> resource,
                                      priority |-> l.priority], t)
    IN  IF heldByOther # {} /\ ~(\A l \in heldByOther : Preempts(priority, l))
        THEN Result(ls, q, t, Null, {})
        ELSE Result(MapSet(ls, resource, lock),
                    removeFromQueue(q2, agentId, resource),
                    t2,
                    LockValue(lock),
                    {[preempted |-> l.lockedBy, by |-> agentId,
                      resource |-> resource] : l \in heldByOther})

\* t is the clock at `new Date()`, t2 the clock at the later `Date.now()`.
acquireLock(ls, q, agentId, resource, priority, t, t2) ==
    LET existingLock == MapGet(ls, resource)
        heldByOther == {l \in existingLock :
                           NotExpired(l, t) /\ l.lockedBy # agentId}
        lock == BusinessLock(resource, agentId, priority, t, t2)
    IN  IF heldByOther # {} /\ ~(\A l \in heldByOther : Preempts(priority, l))
        THEN Result(ls, q, t, Null, {})
        ELSE Result(MapSet(ls, resource, lock),
                    removeFromQueue(q, agentId, resource),
                    t2,
                    LockValue(lock),
                    {[preempted |-> l.lockedBy, by |-> agentId,
                      resource |-> resource] : l \in heldByOther})

\* a requestCoordination that tries acquireLock first, whoever holds the lock,
\* and queues the request when that is denied
requestCoordinationTriesFirst(ls, q, request, t, t2) ==
    LET r == acquireLock(ls, q, request.agentId, request.resource,
                         request.priority, t, t2)
        q2 == addToQueue(q, request, t)
        position == getQueuePosition(q2, request.agentId, request.resource)
    IN  IF r.ret.kind = "lock"
        THEN Result(r.locks, r.queue, r.now,
                    [kind |-> "granted", granted |-> TRUE,
                     lock |-> r.ret.lock], r.log)
        ELSE Result(ls, q2, t,
                    [kind            |-> "queued",
                     granted         |-> FALSE,
                     queuePosition   |-> Unawaited(position),
                     estimatedWaitMs |-> Times(Unawaited(position),
                                               WaitPerPositionMs)], {})

requestCoordination(ls, q, request, t, t2) ==
    LET existingLock == MapGet(ls, request.resource)
        live == {l \in existingLock : NotExpired(l, t)}
    IN  IF live # {}
        THEN IF \E l \in live : l.lockedBy # request.agentId
             THEN LET q2 == addToQueue(q, request, t)
                      position == getQueuePosition(q2, request.agentId,
                                                   request.resource)
                  IN  Result(ls, q2, t,
                             [kind            |-> "queued",
                              granted         |-> FALSE,
                              queuePosition   |-> Unawaited(position),
                              estimatedWaitMs |-> Times(Unawaited(position),
                                                        WaitPerPositionMs)],
                             {})
             ELSE Result(ls, q, t,
                         [kind |-> "held", granted |-> TRUE,
                          lock |-> CHOOSE l \in live : TRUE], {})
        ELSE LET r == acquireLock(ls, q, request.agentId, request.resource,
                                  request.priority, t, t2)
             IN  IF r.ret.kind = "lock"
                 THEN Result(r.locks, r.queue, r.now,
                             [kind |-> "granted", granted |-> TRUE,
                              lock |-> r.ret.lock], r.log)
                 ELSE Result(r.locks, r.queue, r.now,
                             [kind |-> "refused", granted |-> FALSE], r.log)

\* "Process queue - grant lock to next in line", after this.locks.delete
promoteLater(ls, q, resource, t, t2) == Result(ls, q, t, Null, {})

promote(ls, q, resource, t, t2) ==
    LET nextInQueue == FindByResource(q, resource)
    IN  IF nextInQueue # {}
        THEN LET n == CHOOSE e \in nextInQueue : TRUE
             IN  acquireLock(ls, q, n.agentId, n.resource, n.priority, t, t2)
        ELSE Result(ls, q, t, Null, {})

\* if (!lock) return { released: false }
NotHeldThrows == [kind |-> "ConflictException"]

NotHeld == [kind |-> "result", released |-> FALSE]

releaseLock(ls, q, agentId, resource, t, t2) ==
    LET lock == MapGet(ls, resource)
    IN  IF lock = {}
        THEN Result(ls, q, t, NotHeld, {})
        ELSE IF \E l \in lock : ~OwnedBy(l, agentId)
        THEN Result(ls, q, t, [kind |-> "ConflictException"], {})
        ELSE LET r == promote(MapDelete(ls, resource), q, resource, t, t2)
             IN  Result(r.locks, r.queue, r.now,
                        [kind |-> "result", released |-> TRUE], r.log)

getLockStatus(ls, resource, t) ==
    LET lock == {l \in MapGet(ls, resource) : NotExpired(l, t)}
    IN  IF lock # {} THEN LockValue(CHOOSE l \in lock : TRUE) ELSE Null

\* ---------------------------------------------------- ArbiterController
\* @HttpCode(HttpStatus.OK), also the default of @Get and @Delete
OK == 200
\* @HttpCode(HttpStatus.CREATED)
CREATED == 201
\* the status of a ConflictException
CONFLICT == 409

\* The status code of the response to a call: the handler's @HttpCode when it
\* returns, whatever it returns, and the exception's status when it throws.
HttpStatus(call) ==
    IF call.ret.kind = "ConflictException" THEN CONFLICT
    ELSE IF call.op = "acquireLock" THEN CREATED
    ELSE OK

\* ------------------------------------------------------- state machine
NoAgent == "-"
NoResource == "-"

Call(op, agentId, resource, priority, ret, log) ==
    [op |-> op, agentId |-> agentId, resource |-> resource,
     priority |-> priority, ret |-> ret, log |-> log]

Key(e) == <<e.agentId, e.resource>>

QueuedKeys(q) == {Key(q[i]) : i \in 1 .. Len(q)}

\* the keys still queued keep their push order, a newly pushed key goes last
RECURSIVE SeqOfSet(_)
SeqOfSet(S) ==
    IF S = {} THEN <<>>
    ELSE LET x == CHOOSE y \in S : TRUE IN <<x>> \o SeqOfSet(S \ {x})

PushOrder(arr, q) ==
    LET kept == SelectSeq(arr, LAMBDA k : k \in QueuedKeys(q))
        old  == {arr[i] : i \in 1 .. Len(arr)}
    IN  kept \o SeqOfSet(QueuedKeys(q) \ old)

\* History of one caller's sequence acquireLock(A, R), getLockStatus(R)...,
\* releaseLock(A, R), getLockStatus(R)... during which no other request is
\* made: "acquired" from A's successful acquireLock, "released" from A's
\* successful releaseLock (waiters records whether an entry was queued for R
\* when it ran), "idle" once any other request is handled.
NoTrip == [stage |-> "idle", agentId |-> NoAgent, resource |-> NoResource,
           waiters |-> FALSE]

TripAfter(tr, q, call) ==
    IF call.op = "acquireLock" /\ call.ret.kind = "lock"
    THEN [stage |-> "acquired", agentId |-> call.agentId,
          resource |-> call.resource, waiters |-> FALSE]
    ELSE IF call.op = "tick"
            \/ (call.op = "getLockStatus" /\ call.resource = tr.resource)
    THEN tr
    ELSE IF /\ tr.stage = "acquired"
            /\ call.op = "releaseLock"
            /\ call.agentId = tr.agentId
            /\ call.resource = tr.resource
            /\ call.ret.kind = "result"
            /\ call.ret.released
    THEN [tr EXCEPT !.stage = "released",
                    !.waiters = \E i \in 1 .. Len(q) :
                                    q[i].resource = tr.resource]
    ELSE NoTrip

\* the clock may tick between `new Date()` and `Date.now()` of one handler
Later(t) == {t2 \in Instants : t <= t2 /\ t2 <= t + 1}

Commit(r, call) ==
    /\ locks' = r.locks
    /\ queue' = r.queue
    /\ now' = r.now
    /\ arrived' = PushOrder(arrived, r.queue)
    /\ last' = call
    /\ trip' = TripAfter(trip, queue, call)

Init ==
    /\ locks = {}
    /\ queue = <<>>
    /\ now = 0
    /\ arrived = <<>>
    /\ last = Call("init", NoAgent, NoResource, 0, Null, {})
    /\ trip = NoTrip

AcquireLock(a, r, p) ==
    \E t2 \in Later(now) :
        LET res == acquireLock(locks, queue, a, r, p, now, t2)
        IN  Commit(res, Call("acquireLock", a, r, p, res.ret, res.log))

RequestCoordination(a, r, p) ==
    \E t2 \in Later(now) :
        LET res == requestCoordination(locks, queue,
                       [agentId |-> a, resource |-> r, priority |-> p], now, t2)
        IN  Commit(res, Call("requestCoordination", a, r, p, res.ret, res.log))

ReleaseLock(a, r) ==
    \E t2 \in Later(now) :
        LET res == releaseLock(locks, queue, a, r, now, t2)
        IN  Commit(res, Call("releaseLock", a, r, 0, res.ret, res.log))

\* a status read that also deletes the entry it finds expired
GetLockStatusSweeps(r) ==
    /\ last' = Call("getLockStatus", NoAgent, r, 0,
                    getLockStatus(locks, r, now), {})
    /\ trip' = TripAfter(trip, queue, last')
    /\ locks' = {l \in locks : l.resource # r \/ NotExpired(l, now)}
    /\ UNCHANGED <<queue, now, arrived>>

GetLockStatus(r) ==
    /\ last' = Call("getLockStatus", NoAgent, r, 0,
                    getLockStatus(locks, r, now), {})
    /\ trip' = TripAfter(trip, queue, last')
    /\ UNCHANGED <<locks, queue, now, arrived>>

GetQueuePosition(a, r) ==
    /\ last' = Call("getQueuePosition", a, r, 0,
                    [kind |-> "position",
                     position |-> getQueuePosition(queue, a, r)], {})
    /\ trip' = TripAfter(trip, queue, last')
    /\ UNCHANGED <<locks, queue, now, arrived>>

\* POST /arbiter/lock with a JSON body.  The controller passes agentId,
\* resource and priority of the body to the service; any other field of the
\* body (no pipe validates or strips it) is read by nothing.
PriorityOrFive(body) ==
    IF "priority" \in DOMAIN body THEN body.priority ELSE 5

\* acquireLock(agentId, resource, priority = 0) called with dto.priority,
\* which is undefined when the body has no priority
PriorityOrDefault(body) ==
    IF "priority" \in DOMAIN body THEN body.priority ELSE 0

PostLock(body) ==
    \E t2 \in Later(now) :
        LET res == acquireLock(locks, queue, body.agentId, body.resource,
                               PriorityOrDefault(body), now, t2)
        IN  Commit(res, [op |-> "POST lock", agentId |-> body.agentId,
                         resource |-> body.resource,
                         priority |-> PriorityOrDefault(body),
                         ret |-> res.ret, log |-> res.log, body |-> body])

\* time passes between two requests
Tick ==
    /\ \E t \in Instants : t > now /\ now' = t
    /\ last' = Call("tick", NoAgent, NoResource, 0, Null, {})
    /\ UNCHANGED <<locks, queue, arrived, trip>>

\* One request of any kind, from a caller in who (agentId, resource pairs) at a
\* priority in prios.
Request(who, prios) ==
    \/ \E w \in who, p \in prios : AcquireLock(w[1], w[2], p)
    \/ \E w \in who, p \in prios : RequestCoordination(w[1], w[2], p)
    \/ \E w \in who : ReleaseLock(w[1], w[2])

Query(who) ==
    \/ \E w \in who : GetLockStatus(w[2])
    \/ \E w \in who : GetQueuePosition(w[1], w[2])

\* Three agents contending for one resource while time passes.
Next ==
    \/ Request(Agents \X Resources, Priorities)
    \/ Query(Agents \X Resources)
    \/ Tick

Spec == Init /\ [][Next]_vars

\* The same requests, with the one thing that happens when no request arrives:
\* the clock goes on.  The service starts no timer and registers no interval,
\* so no step other than a request ever runs its code.
SpecIdle == Init /\ [][Next]_vars /\ WF_vars(Tick)

\* Four agents and two resources within one clock reading: r1 is contended by
\* all four at either priority, r2 by two of them at priority 5.

NextQueue ==
    \/ Request(QueueAgents \X {"r1"}, Priorities)
    \/ Request({"a1", "a2"} \X {"r2"}, {5})

SpecQueue == Init /\ [][NextQueue]_vars

\* Lock requests whose body also names a lease length, in seconds, as the
\* clients of the deployment guide send it; releases; and time passing.
TtlSeconds == {10, 30, 60}

LockBodies ==
    [agentId : {"a1", "a2"}, resource : {"r1"}, priority : Priorities,
     ttlSeconds : TtlSeconds]
    \cup [agentId : {"a1", "a2"}, resource : {"r1"}, ttlSeconds : TtlSeconds]

NextTtl ==
    \/ \E body \in LockBodies : PostLock(body)
    \/ \E a \in {"a1", "a2"} : ReleaseLock(a, "r1")
    \/ Tick

SpecTtl == Init /\ [][NextTtl]_vars

\* Two agents and two resources within one clock reading, with the queries.
RankWorkload == {"a1", "a2"} \X {"r1", "r2"}

NextRank ==
    \/ Request(RankWorkload, Priorities)
    \/ Query(RankWorkload)

SpecRank == Init /\ [][NextRank]_vars

\* ---------------------------------------------------------------- claims
AllResources == {"r1", "r2"}

LocksOn(ls, r) == {l \in ls : l.resource = r}

\* the indexes of the queue entries for resource r
QueuedFor(q, r) == {i \in 1 .. Len(q) : q[i].resource = r}

\* the position of key k in the push-order history
PushIndex(arr, k) == CHOOSE i \in 1 .. Len(arr) : arr[i] = k

Released(call) ==
    /\ call.op = "releaseLock"
    /\ call.ret.kind = "result"
    /\ call.ret.released

\* C1: mutual exclusion. In every reachable state the lock table has at most
\* one entry per resource, and so at most one caller is the holder of a live
\* lock on it (the holder getLockStatus reports).
C1_MutualExclusion ==
    \A r \in AllResources :
        /\ Cardinality(LocksOn(locks, r)) <= 1
        /\ Cardinality({l.lockedBy : l \in {k \in LocksOn(locks, r) :
                                                k.expiresAt > now}}) <= 1

\* a preemption has just replaced one holder by another while a third waits
C1_Witness ==
    /\ last.op = "acquireLock"
    /\ last.log # {}
    /\ Len(queue) >= 1
    /\ \E l \in locks : l.lockedBy = last.agentId /\ l.expiresAt > now

\* C2: priority preemption. acquireLock(Y, R, q) on a resource with a live
\* lock of another caller X at a priority p < q returns a lock, and the step
\* leaves R's table entry naming Y at priority q.
C2_PriorityPreemption ==
    [][\A l \in locks :
          ( /\ last'.op = "acquireLock"
            /\ last'.resource = l.resource
            /\ l.expiresAt > now
            /\ l.lockedBy # last'.agentId
            /\ last'.priority > l.priority )
          => ( /\ last'.ret.kind = "lock"
               /\ LocksOn(locks', l.resource) = {last'.ret.lock}
               /\ last'.ret.lock.lockedBy = last'.agentId
               /\ last'.ret.lock.priority = last'.priority
               /\ l \notin locks' )]_vars

C2_Witness ==
    /\ last.op = "acquireLock"
    /\ last.ret.kind = "lock"
    /\ \E x \in last.log : x.preempted # last.agentId /\ x.by = last.agentId
    /\ \A l \in LocksOn(locks, last.resource) :
           l.lockedBy = last.agentId /\ l.priority = last.priority

\* C3: equal or lower priority never preempts. acquireLock(Y, R, q) on a
\* resource with a live lock of another caller at priority p >= q returns
\* null and leaves the lock table and the wait queue as they were.
C3_EqualNeverPreempts ==
    [][\A l \in locks :
          ( /\ last'.op = "acquireLock"
            /\ last'.resource = l.resource
            /\ l.expiresAt > now
            /\ l.lockedBy # last'.agentId
            /\ last'.priority <= l.priority )
          => ( /\ last'.ret.kind = "null"
               /\ locks' = locks
               /\ queue' = queue )]_vars

\* a request at the holder's own priority has just been denied
C3_Witness ==
    /\ last.op = "acquireLock"
    /\ last.ret.kind = "null"
    /\ \E l \in LocksOn(locks, last.resource) :
           /\ l.lockedBy # last.agentId
           /\ l.priority = last.priority
           /\ l.expiresAt > now

\* C4: requestCoordination grants exactly when acquireLock with the same
\* caller, resource and priority would grant in the same state.
C4_TryAcquireThenEnqueue ==
    [][last'.op = "requestCoordination"
          => ( last'.ret.granted
               <=> acquireLock(locks, queue, last'.agentId, last'.resource,
                               last'.priority, now, now).ret.kind = "lock" )]_vars

\* C5: release ownership. releaseLock(c, R) while R's table entry names
\* another caller raises ConflictException and changes neither the lock table
\* nor the wait queue.
C5_ReleaseOwnership ==
    [][\A l \in locks :
          ( /\ last'.op = "releaseLock"
            /\ last'.resource = l.resource
            /\ l.lockedBy # last'.agentId )
          => ( /\ last'.ret.kind = "ConflictException"
               /\ locks' = locks
               /\ queue' = queue )]_vars

C5_Witness ==
    /\ last.op = "releaseLock"
    /\ last.ret.kind = "ConflictException"
    /\ \E l \in LocksOn(locks, last.resource) : l.lockedBy # last.agentId

\* C6: release and promotion are one step. Whenever a successful releaseLock
\* on R finds an entry queued for R, the state it leaves (the first one any
\* other handler can observe) already has R held, live, by a caller that was
\* queued for R: no handler ever sees R free with its waiters still queued.
C6_ReleasePromotesAtomically ==
    [][( Released(last') /\ QueuedFor(queue, last'.resource) # {} )
          => \E l \in LocksOn(locks', last'.resource) :
                 /\ l.expiresAt > now'
                 /\ \E i \in QueuedFor(queue, last'.resource) :
                        queue[i].agentId = l.lockedBy]_vars

\* a release has just handed the resource to another caller
C6_Witness ==
    /\ Released(last)
    /\ \E l \in LocksOn(locks, last.resource) :
           l.lockedBy # last.agentId /\ l.expiresAt > now

\* C7: promotion without re-requesting. A requestCoordination that is queued
\* as the only entry reports position 1; and when the holder releases R while
\* a2's entry is the only one queued for R, the release itself leaves a2 the
\* holder of R at its queued priority, with a2's entry gone from the queue.
C7_PromotionWithoutReRequest ==
    [][ /\ ( last'.op = "requestCoordination" /\ last'.ret.kind = "queued"
             /\ Len(queue') = 1 )
           => last'.ret.queuePosition.promise = 1
        /\ \A i \in 1 .. Len(queue) :
              ( /\ Released(last')
                /\ QueuedFor(queue, last'.resource) = {i} )
              => ( /\ LocksOn(locks', last'.resource) # {}
                   /\ \A l \in LocksOn(locks', last'.resource) :
                          /\ l.lockedBy = queue[i].agentId
                          /\ l.priority = queue[i].priority
                   /\ \A j \in 1 .. Len(queue') :
                          Key(queue'[j]) # Key(queue[i]) ) ]_vars

\* the caller that was queued holds the resource at the end of the release,
\* at the priority it queued with, and nobody is queued any more
C7_Witness ==
    /\ Released(last)
    /\ queue = <<>>
    /\ \E l \in LocksOn(locks, last.resource) :
           l.lockedBy # last.agentId /\ l.priority = 5

\* C8: FIFO among equals. The entry a release of R promotes was pushed before
\* every other entry queued for R at the same priority, wherever entries for
\* other resources sit in the queue.
C8_FifoAmongEquals ==
    [][Released(last')
          => \A i, j \in QueuedFor(queue, last'.resource) :
                 ( /\ \E l \in LocksOn(locks', last'.resource) :
                          l.lockedBy = queue[i].agentId
                   /\ queue[j].priority = queue[i].priority )
                 => PushIndex(arrived, Key(queue[i]))
                        <= PushIndex(arrived, Key(queue[j]))]_vars

\* A has been promoted; B and C, of A's priority, are still queued for the
\* resource with an entry for another resource between them
C8_Witness ==
    /\ Released(last)
    /\ \E l \in LocksOn(locks, last.resource) :
           /\ l.lockedBy # last.agentId
           /\ \E i, j, k \in 1 .. Len(queue) :
                  /\ i < j /\ j < k
                  /\ queue[i].resource = last.resource
                  /\ queue[j].resource # last.resource
                  /\ queue[k].resource = last.resource
                  /\ queue[i].priority = l.priority
                  /\ queue[k].priority = l.priority

\* C9: the best entry is promoted. When a release of R finds entries queued
\* for R, the one promoted has the highest priority among them and, of those
\* with that priority, was pushed first; it is the only entry the release
\* removes, and the locks on other resources are untouched.
C9_PromotesBestEntry ==
    [][( Released(last') /\ QueuedFor(queue, last'.resource) # {} )
          => \E i \in QueuedFor(queue, last'.resource) :
                 /\ \A l \in LocksOn(locks', last'.resource) :
                        l.lockedBy = queue[i].agentId
                 /\ LocksOn(locks', last'.resource) # {}
                 /\ \A j \in QueuedFor(queue, last'.resource) :
                        \/ queue[j].priority < queue[i].priority
                        \/ /\ queue[j].priority = queue[i].priority
                           /\ PushIndex(arrived, Key(queue[i]))
                                  <= PushIndex(arrived, Key(queue[j]))
                 /\ queue' = [k \in 1 .. Len(queue) - 1 |->
                                 IF k < i THEN queue[k] ELSE queue[k + 1]]
                 /\ \A r \in AllResources \ {last'.resource} :
                        LocksOn(locks', r) = LocksOn(locks, r)]_vars

\* a priority-5 entry was promoted over a priority-0 entry for the same
\* resource, and an entry for another resource is still queued
C9_Witness ==
    /\ Released(last)
    /\ \E l \in LocksOn(locks, last.resource) :
           /\ l.lockedBy # last.agentId
           /\ l.priority = 5
    /\ \E i, j \in 1 .. Len(queue) :
           /\ queue[i].resource = last.resource /\ queue[i].priority = 0
           /\ queue[j].resource # last.resource

\* C10: expiry on read. getLockStatus(R), with R's table entry in place,
\* returns that entry at every time strictly before its expiresAt and null at
\* every time at or after it.
C10_ExpiryOnRead ==
    last.op = "getLockStatus"
        => \A l \in LocksOn(locks, last.resource) :
               /\ now < l.expiresAt
                     => last.ret.kind = "lock" /\ last.ret.lock = l
               /\ now >= l.expiresAt => last.ret.kind = "null"

\* the entry is still in the table at the very instant it expires, and
\* getLockStatus has just reported null
C10_Witness ==
    /\ last.op = "getLockStatus"
    /\ last.ret.kind = "null"
    /\ \E l \in LocksOn(locks, last.resource) : now = l.expiresAt

\* C11 (as stated): round trip. After a successful acquireLock(A, R),
\* getLockStatus(R) returns a lock held by A, and after A's successful
\* releaseLock(A, R) getLockStatus(R) returns null, no other request being
\* handled in between.
C11_RoundTripAsStated ==
    ( last.op = "getLockStatus" /\ last.resource = trip.resource )
        => /\ trip.stage = "acquired"
                 => \A l \in LocksOn(locks, trip.resource) :
                        now < l.expiresAt
                            => /\ last.ret.kind = "lock"
                               /\ last.ret.lock.lockedBy = trip.agentId
           /\ trip.stage = "released" => last.ret.kind = "null"

\* C11 (amended): round trip. After a successful acquireLock(A, R) the table
\* entry of R is A's and getLockStatus(R) returns it while the lease runs;
\* after A's successful releaseLock(A, R) getLockStatus(R) returns null when
\* no entry was queued for R at the release, and otherwise the lock of the
\* promoted caller (not A) while that lease runs.
C11_RoundTrip ==
    /\ trip.stage = "acquired"
          => /\ LocksOn(locks, trip.resource) # {}
             /\ \A l \in LocksOn(locks, trip.resource) :
                    l.lockedBy = trip.agentId
    /\ ( last.op = "getLockStatus" /\ last.resource = trip.resource )
          => /\ trip.stage = "acquired"
                   => \A l \in LocksOn(locks, trip.resource) :
                          now < l.expiresAt
                              => /\ last.ret.kind = "lock"
                                 /\ last.ret.lock.lockedBy = trip.agentId
             /\ ( trip.stage = "released" /\ ~trip.waiters )
                   => last.ret.kind = "null"
             /\ ( trip.stage = "released" /\ trip.waiters )
                   => /\ LocksOn(locks, trip.resource) # {}
                      /\ \A l \in LocksOn(locks, trip.resource) :
                             /\ l.lockedBy # trip.agentId
                             /\ now < l.expiresAt
                                   => /\ last.ret.kind = "lock"
                                      /\ last.ret.lock = l

\* the round trip has completed with nobody queued: the last status is null
C11_Witness ==
    /\ trip.stage = "released"
    /\ ~trip.waiters
    /\ last.op = "getLockStatus"
    /\ last.resource = trip.resource
    /\ last.ret.kind = "null"

\* C12: expiry-driven promotion. Once the lock on R is past its expiry with
\* a caller queued for R, the expired entry is eventually reclaimed (R's
\* entry is gone or is a running lease again) unless a caller makes a request
\* on R first.
C12_ExpiryDrivenPromotion ==
    \A r \in AllResources :
        [](( /\ last.op = "tick"
             /\ QueuedFor(queue, r) # {}
             /\ \E l \in LocksOn(locks, r) : now >= l.expiresAt )
           => <>( \/ \A l \in LocksOn(locks, r) : now < l.expiresAt
                  \/ /\ last.op \in {"acquireLock", "requestCoordination",
                                     "releaseLock"}
                     /\ last.resource = r ))

\* C13: the wait queue never holds two entries for one (agentId, resource)
\* pair, and a requestCoordination by a caller already queued for R leaves the
\* queue as it was.
C13_OneEntryPerCaller ==
    [][ /\ \A i, j \in 1 .. Len(queue') :
               Key(queue'[i]) = Key(queue'[j]) => i = j
        /\ ( /\ last'.op = "requestCoordination"
             /\ <<last'.agentId, last'.resource>> \in QueuedKeys(queue) )
           => Len(queue') <= Len(queue) ]_vars

\* a caller already queued at another priority has requested again and is
\* still queued
C13_Witness ==
    /\ last.op = "requestCoordination"
    /\ last.ret.kind = "queued"
    /\ \E i \in 1 .. Len(queue) :
           /\ Key(queue[i]) = <<last.agentId, last.resource>>
           /\ queue[i].priority # last.priority

\* C14: re-requesting updates the queued entry. After a requestCoordination
\* that is queued, the caller's entry for R carries the priority and the time
\* of that request.
C14_ReRequestUpdatesEntry ==
    ( last.op = "requestCoordination" /\ last.ret.kind = "queued" )
        => \A i \in 1 .. Len(queue) :
               Key(queue[i]) = <<last.agentId, last.resource>>
                   => /\ queue[i].priority = last.priority
                      /\ queue[i].requestedAt = now

\* the 1-indexed rank of (a, r) among the entries queued for r; 0 if absent
RankFor(q, a, r) ==
    Cardinality({i \in QueuedFor(q, r) :
                    \E j \in QueuedFor(q, r) : i <= j /\ q[j].agentId = a})

\* C15: getQueuePosition(c, R) returns the 1-indexed rank of c among the
\* entries queued for R only, and 0 exactly when c has no entry for R.
C15_PositionIsRankForResource ==
    last.op = "getQueuePosition"
        => /\ last.ret.position = RankFor(queue, last.agentId, last.resource)
           /\ last.ret.position = 0
                 <=> <<last.agentId, last.resource>> \notin QueuedKeys(queue)

\* C16: every requestCoordination result is granted with the lock, or not
\* granted with queuePosition an integer >= 1 equal to what getQueuePosition
\* returns for the caller at that moment and a numeric estimatedWaitMs.
C16_ResultShape ==
    last.op = "requestCoordination"
        => \/ last.ret.granted /\ last.ret.kind \in {"granted", "held"}
           \/ /\ ~last.ret.granted
              /\ last.ret.kind = "queued"
              /\ last.ret.queuePosition.type = "number"
              /\ last.ret.queuePosition.value >= 1
              /\ last.ret.queuePosition.value
                     = getQueuePosition(queue, last.agentId, last.resource)
              /\ last.ret.estimatedWaitMs.type = "number"

\* the time left on the live lock of resource r at time t, 0 without one
RemainingLease(ls, r, t) ==
    LET live == {l \in LocksOn(ls, r) : NotExpired(l, t)}
    IN  IF live = {} THEN 0 ELSE (CHOOSE l \in live : TRUE).expiresAt - t

\* the leases a caller queued for r waits for: what is left of the holder's,
\* then a whole lease for each entry queued ahead of it
LeasesAhead(ls, q, a, r, t) ==
    RemainingLease(ls, r, t) + DefaultTtlMs * (RankFor(q, a, r) - 1)

\* C17: the estimatedWaitMs of a queued requestCoordination result is the sum
\* of the remaining lease durations of the entries ahead of the caller for the
\* resource, not a constant per queue position.
C17_EstimateFromLeases ==
    last.op = "requestCoordination" /\ last.ret.kind = "queued"
        => /\ last.ret.estimatedWaitMs.type = "number"
           /\ last.ret.estimatedWaitMs.value
                  = LeasesAhead(locks, queue, last.agentId, last.resource, now)

\* C18: a lock request refused because another caller holds a live lock at
\* equal or higher priority is answered with an error status, never with a
\* success status.
C18_DenialIsConflictError ==
    last.op = "acquireLock" /\ last.ret.kind = "null"
        => HttpStatus(last) >= 400

\* C19: releaseLock on a resource with no lock returns released = false
\* without throwing and changes neither the lock table nor the queue.
C19_ReleaseOfUnlocked ==
    [][last'.op = "releaseLock" /\ LocksOn(locks, last'.resource) = {}
          => /\ last'.ret.kind = "result"
             /\ ~last'.ret.released
             /\ locks' = locks
             /\ queue' = queue]_vars

C19_Witness ==
    /\ last.op = "releaseLock"
    /\ last.ret.kind = "result"
    /\ ~last.ret.released
    /\ LocksOn(locks, last.resource) = {}

\* C20: getLockStatus and getQueuePosition change neither the lock table nor
\* the queue, and return null, respectively 0, for a resource or caller with
\* no entry.
C20_ReadsAreReadOnly ==
    [][/\ last'.op \in {"getLockStatus", "getQueuePosition"}
          => locks' = locks /\ queue' = queue
       /\ last'.op = "getLockStatus" /\ LocksOn(locks, last'.resource) = {}
          => last'.ret = Null
       /\ /\ last'.op = "getQueuePosition"
          /\ <<last'.agentId, last'.resource>> \notin QueuedKeys(queue)
          => last'.ret.position = 0]_vars

C20_Witness ==
    /\ last.op = "getLockStatus"
    /\ last.ret.kind = "null"
    /\ \E l \in LocksOn(locks, last.resource) : l.expiresAt < now
    /\ QueuedFor(queue, last.resource) # {}

\* the length of a lease
LeaseMs(l) == l.expiresAt - l.acquiredAt

\* C21: the lease of a granted lock is as long as the TTL the acquire request
\* supplied.
C21_LeaseIsRequestedTtl ==
    last.op = "POST lock" /\ last.ret.kind = "lock"
        => LeaseMs(last.ret.lock) = last.body.ttlSeconds * 1000

\* C22: every lock in the lock table, however it got there, has
\* expiresAt = acquiredAt + the 30 second TTL.
C22_ExpiresAtIsAcquiredAtPlusTtl ==
    \A l \in locks : l.expiresAt = l.acquiredAt + DefaultTtlMs

\* C23: lease monotonicity. While the table has an entry for a resource, a
\* step never leaves it with a smaller expiresAt: re-acquisition, preemption
\* and takeover of an expired entry all move expiresAt forward or keep it.
C23_LeaseMonotone ==
    [][\A l \in locks : \A l2 \in LocksOn(locks', l.resource) :
           l2.expiresAt >= l.expiresAt]_vars

\* an entry has just been rewritten by a preemption made after the start
C23_Witness ==
    /\ last.op = "acquireLock"
    /\ last.ret.kind = "lock"
    /\ last.log # {}
    /\ last.ret.lock.acquiredAt > 0
    /\ LocksOn(locks, last.resource) = {last.ret.lock}

\* C24: a preempted holder is not re-queued. Right after Y preempts X on R,
\* X has no lock on R and no queue entry for R; a queue entry appears only by
\* its own caller's requestCoordination, and a caller becomes holder only by
\* its own request or by promotion of its queue entry, so X gets R again only
\* after a new request of X.
C24_PreemptedNotRequeued ==
    [][ /\ \A x \in last'.log :
              /\ \A l \in LocksOn(locks', x.resource) : l.lockedBy # x.preempted
              /\ <<x.preempted, x.resource>> \notin QueuedKeys(queue')
        /\ \A k \in QueuedKeys(queue') \ QueuedKeys(queue) :
              /\ last'.op = "requestCoordination"
              /\ k = <<last'.agentId, last'.resource>>
        /\ \A l \in locks' \ locks :
              \/ /\ last'.op \in {"acquireLock", "requestCoordination"}
                 /\ l.lockedBy = last'.agentId
              \/ /\ Released(last')
                 /\ <<l.lockedBy, l.resource>> \in QueuedKeys(queue) ]_vars

\* X has just been preempted while others wait in the queue
C24_Witness ==
    /\ last.op = "acquireLock"
    /\ queue # <<>>
    /\ \E x \in last.log :
          /\ x.by = last.agentId
          /\ <<x.preempted, x.resource>> \notin QueuedKeys(queue)
          /\ \A l \in LocksOn(locks, x.resource) : l.lockedBy = x.by

\* what a call wrote for others to read.  The service has no event channel:
\* it injects no emitter and keeps no event list, and the only thing a handler
\* writes besides its return value is the console.log line of a preemption.
Emitted(call) == call.log

\* C25: every grant, denial, preemption and release emits an event; every
\* preemption emits one that names the prior holder as preempted.
C25_EveryOutcomeEmitsEvent ==
    last.op \in {"acquireLock", "requestCoordination", "releaseLock"}
        => Emitted(last) # {}

\* an acquisition attempt that was not granted
Denied(call) ==
    \/ call.op = "acquireLock" /\ call.ret.kind = "null"
    \/ call.op = "requestCoordination" /\ ~call.ret.granted

\* C26 (as stated): after a denied acquisition attempt (acquireLock or
\* requestCoordination) of caller c for resource R, c has a queue entry for R.
C26_DeniedIsQueued ==
    Denied(last) => <<last.agentId, last.resource>> \in QueuedKeys(queue)

\* C26: after a requestCoordination of c for R that is not granted, c has a
\* queue entry for R; a denied acquireLock leaves the queue as it was.
C26_DeniedCoordinationIsQueued ==
    [][ /\ last'.op = "requestCoordination" /\ ~last'.ret.granted
            => <<last'.agentId, last'.resource>> \in QueuedKeys(queue')
        /\ last'.op = "acquireLock" /\ last'.ret.kind = "null"
            => queue' = queue ]_vars

\* a requestCoordination has just been answered "not granted"
C26_Witness ==
    /\ last.op = "requestCoordination"
    /\ ~last.ret.granted
    /\ \E i \in QueuedFor(queue, last.resource) :
           /\ queue[i].agentId = last.agentId
           /\ queue[i].priority = last.priority

\* C27: the lock a successful acquireLock returns has the request's resource
\* and agentId, the request's priority or 0 when the request has none, and is
\* the lock getLockStatus reports for the resource right after.
C27_AcquiredLockIsRequested ==
    last.op = "POST lock" /\ last.ret.kind = "lock"
        => /\ last.ret.lock.resource = last.body.resource
           /\ last.ret.lock.lockedBy = last.body.agentId
           /\ "priority" \in DOMAIN last.body
                  => last.ret.lock.priority = last.body.priority
           /\ "priority" \notin DOMAIN last.body
                  => last.ret.lock.priority = 0
           /\ getLockStatus(locks, last.body.resource, now) = last.ret

\* a request without priority has just taken the resource from another caller
\* whose lease had run out
C27_Witness ==
    /\ last.op = "POST lock"
    /\ last.ret.kind = "lock"
    /\ "priority" \notin DOMAIN last.body
    /\ last.ret.lock.acquiredAt >= DefaultTtlMs
    /\ LocksOn(locks, last.body.resource) = {last.ret.lock}

\* C28: requestCoordination for a resource with no live lock (never locked,
\* released or expired) is granted with a lock held by the requester, which
\* becomes the table's entry, and the requester's own queue entry for the
\* resource, if it had one, is gone.
C28_FreeResourceIsGranted ==
    [][ ( /\ last'.op = "requestCoordination"
          /\ \A l \in LocksOn(locks, last'.resource) : l.expiresAt <= now )
        => ( /\ last'.ret.granted
             /\ last'.ret.kind = "granted"
             /\ last'.ret.lock.lockedBy = last'.agentId
             /\ last'.ret.lock.resource = last'.resource
             /\ LocksOn(locks', last'.resource) = {last'.ret.lock}
             /\ <<last'.agentId, last'.resource>> \notin QueuedKeys(queue') )
      ]_vars

\* a requestCoordination has just been granted a resource whose previous
\* lease had run out, while other callers are queued
C28_Witness ==
    /\ last.op = "requestCoordination"
    /\ last.ret.kind = "granted"
    /\ last.ret.lock.acquiredAt >= DefaultTtlMs
    /\ queue # <<>>
    /\ <<last.agentId, last.resource>> \notin QueuedKeys(queue)

\* an attempt to take a resource
Attempt(call) == call.op \in {"acquireLock", "requestCoordination"}

\* C29: first writer wins. Each handler runs to completion before the next
\* starts, so two concurrent attempts are handled in one order or the other.
\* The attempt handled first on a resource without entry is granted; an
\* attempt of another caller at the same priority handled while that lease
\* runs is denied (acquireLock) or queued (requestCoordination) and leaves the
\* first caller's entry in the table untouched.
C29_FirstWriterWins ==
    [][ /\ ( Attempt(last') /\ LocksOn(locks, last'.resource) = {} )
           => \E l \in LocksOn(locks', last'.resource) :
                  /\ l.lockedBy = last'.agentId
                  /\ last'.ret.kind \in {"lock", "granted"}
        /\ \A l \in locks :
              ( /\ Attempt(last')
                /\ last'.resource = l.resource
                /\ last'.agentId # l.lockedBy
                /\ last'.priority = l.priority
                /\ l.expiresAt > now )
              => ( /\ LocksOn(locks', l.resource) = {l}
                   /\ last'.op = "acquireLock" => last'.ret.kind = "null"
                   /\ last'.op = "requestCoordination"
                          => last'.ret.kind = "queued" ) ]_vars

\* the second of two attempts made at the same clock reading and the same
\* priority has just been queued behind the first
C29_Witness ==
    /\ last.op = "requestCoordination"
    /\ last.ret.kind = "queued"
    /\ \E l \in LocksOn(locks, last.resource) :
           /\ l.lockedBy # last.agentId
           /\ l.priority = last.priority
           /\ l.acquiredAt = now
           /\ arrived = <<<<last.agentId, last.resource>>>>

\* the caller of the first queue entry for r, the one a release promotes
BestQueued(q, r) ==
    q[CHOOSE i \in QueuedFor(q, r) : \A j \in QueuedFor(q, r) : i <= j].agentId

\* C30: no queue jumping. An attempt on a resource that is free (no live
\* lock) while callers are queued for it is granted only to the caller of the
\* best queued entry.
C30_NoQueueJumping ==
    [][ ( /\ Attempt(last')
          /\ last'.ret.kind \in {"lock", "granted"}
          /\ \A l \in LocksOn(locks, last'.resource) : l.expiresAt <= now
          /\ QueuedFor(queue, last'.resource) # {} )
        => last'.agentId = BestQueued(queue, last'.resource) ]_vars

\* caller a holds a running lease on r
Holds(a, r) ==
    \E l \in LocksOn(locks, r) : l.lockedBy = a /\ l.expiresAt > now

\* caller a is queued for r at the highest priority there is, so that no
\* request of strictly higher priority can arrive
QueuedAtTop(a, r) ==
    \E i \in QueuedFor(queue, r) :
        /\ queue[i].agentId = a
        /\ \A p \in Priorities : p <= queue[i].priority

\* C31: no starvation within a priority class. If every holder of R gives up
\* R in the end, by release or by expiry, a caller queued for R that no request
\* outranks eventually holds R.
C31_NoStarvation ==
    \A a \in Agents : \A r \in Resources :
        (\A b \in Agents : [](Holds(b, r) => <>~Holds(b, r)))
            => [](QueuedAtTop(a, r) => <>Holds(a, r))

\* getLockStatus(r) at this instant reports a lock, held by a caller in who
StatusHeldBy(ls, r, t, who) ==
    LET status == getLockStatus(ls, r, t)
    IN  status.kind = "lock" /\ status.lock.lockedBy \in who

\* C32: releaseLock agrees with getLockStatus about expiry. It returns
\* released = true only when getLockStatus reports a lock of the caller at that
\* instant, and throws ConflictException only when getLockStatus reports a lock
\* of another caller.
C32_ReleaseAgreesWithStatus ==
    [][last'.op = "releaseLock"
          => /\ Released(last')
                 => StatusHeldBy(locks, last'.resource, now, {last'.agentId})
             /\ last'.ret.kind = "ConflictException"
                 => StatusHeldBy(locks, last'.resource, now,
                                 Agents \ {last'.agentId})]_vars

\* C33: the lock table and the wait queue never disagree about a holder. The
\* caller a lock-table entry names, live or expired, has no queue entry for
\* that resource.
C33_HolderNotQueued ==
    \A l \in locks : <<l.lockedBy, l.resource>> \notin QueuedKeys(queue)

\* a queued caller has just been promoted by a release while another caller
\* remains queued for the resource
C33_Witness ==
    /\ Released(last)
    /\ QueuedFor(queue, last.resource) # {}
    /\ \E l \in LocksOn(locks, last.resource) :
           /\ l.lockedBy # last.agentId
           /\ <<l.lockedBy, l.resource>> \notin QueuedKeys(queue)

\* C34: a resource with a queue entry has a lock-table entry, live or
\* expired. Callers are queued only behind a live lock, and a release that
\* deletes the entry of a resource with waiters sets it again for the caller
\* it promotes.
C34_QueuedBehindEntry ==
    \A i \in 1 .. Len(queue) : LocksOn(locks, queue[i].resource) # {}

\* a caller is queued behind an entry whose lease has run out
C34_Witness ==
    \E i \in 1 .. Len(queue) :
        \E l \in LocksOn(locks, queue[i].resource) :
            /\ l.expiresAt <= now
            /\ l.lockedBy # queue[i].agentId

\* C35: requestCoordination by the caller that holds a live lock on R returns
\* granted = true with that lock and changes nothing: the lock keeps its
\* acquiredAt, expiresAt and priority, and the queue is as before.
C35_HolderCoordinationChangesNothing ==
    [][\A l \in locks :
          ( /\ last'.op = "requestCoordination"
            /\ last'.resource = l.resource
            /\ last'.agentId = l.lockedBy
            /\ l.expiresAt > now )
          => ( /\ last'.ret.granted
               /\ last'.ret.kind = "held"
               /\ last'.ret.lock = l
               /\ locks' = locks
               /\ queue' = queue )]_vars

\* the holder has just asked again, later than it acquired and at another
\* priority than its lock's, while a caller is queued
C35_Witness ==
    /\ last.op = "requestCoordination"
    /\ last.ret.kind = "held"
    /\ last.ret.lock \in locks
    /\ last.ret.lock.acquiredAt < now
    /\ last.ret.lock.priority # last.priority
    /\ queue # <<>>

\* C36: acquireLock by the caller that holds a live lock on R succeeds at any
\* priority, also a lower one, and replaces the lock by a new one of the same
\* holder with the lease starting now and the priority of the request.
C36_HolderReacquires ==
    [][\A l \in locks :
          ( /\ last'.op = "acquireLock"
            /\ last'.resource = l.resource
            /\ last'.agentId = l.lockedBy
            /\ l.expiresAt > now )
          => ( /\ last'.ret.kind = "lock"
               /\ LocksOn(locks', l.resource) = {last'.ret.lock}
               /\ last'.ret.lock.lockedBy = l.lockedBy
               /\ last'.ret.lock.priority = last'.priority
               /\ last'.ret.lock.acquiredAt = now
               /\ last'.ret.lock.expiresAt = now' + DefaultTtlMs
               /\ last'.log = {} )]_vars

\* Every lease is still running and a caller is queued, so the resource has a
\* live holder; an acquireLock at the lowest priority has just been granted
\* without preempting anyone: the holder has replaced its own lock.
C36_Witness ==
    /\ last.op = "acquireLock"
    /\ last.ret.kind = "lock"
    /\ last.log = {}
    /\ \A p \in Priorities : last.priority <= p
    /\ 0 < now /\ now < DefaultTtlMs
    /\ last.ret.lock.acquiredAt = now
    /\ QueuedFor(queue, last.resource) # {}

\* C37: an expired lock never causes a denial. acquireLock or
\* requestCoordination on a resource whose entry is past its expiry is granted
\* to any caller at any priority, and the new lock replaces the expired entry.
C37_ExpiredNeverDenies ==
    [][\A l \in locks :
          ( /\ Attempt(last')
            /\ last'.resource = l.resource
            /\ l.expiresAt <= now )
          => ( /\ last'.ret.kind \in {"lock", "granted"}
               /\ LocksOn(locks', l.resource) = {last'.ret.lock}
               /\ last'.ret.lock.lockedBy = last'.agentId
               /\ last'.ret.lock.priority = last'.priority
               /\ l \notin locks' )]_vars

\* A caller is queued for the resource, so the table had an entry for it, and
\* a requestCoordination of lower priority than the queued caller's has just
\* been granted, which happens only when that entry is not live.
C37_Witness ==
    /\ last.op = "requestCoordination"
    /\ last.ret.kind = "granted"
    /\ last.ret.lock \in locks
    /\ \E i \in QueuedFor(queue, last.resource) :
           queue[i].priority > last.priority

\* the queue entries for resource r, in queue order
EntriesFor(q, r) == SelectSeq(q, LAMBDA e : e.resource = r)

\* the queue entries for the resources other than r, in queue order
EntriesNotFor(q, r) == SelectSeq(q, LAMBDA e : e.resource # r)

\* C38: resources are independent. An operation on R leaves the lock-table
\* entries of every other resource, and the queue entries for the other
\* resources with their order, as they were; a granted acquireLock removes
\* from R's entries the caller's own and no other; a release removes at most
\* one of R's entries, the promoted caller's.
C38_ResourcesIndependent ==
    [][ /\ \A r \in AllResources \ {last'.resource} :
              LocksOn(locks', r) = LocksOn(locks, r)
        /\ EntriesNotFor(queue', last'.resource)
               = EntriesNotFor(queue, last'.resource)
        /\ last'.op = "acquireLock" /\ last'.ret.kind = "lock"
              => EntriesFor(queue', last'.resource)
                     = SelectSeq(EntriesFor(queue, last'.resource),
                                 LAMBDA e : e.agentId # last'.agentId)
        /\ Released(last')
              => /\ Len(EntriesFor(queue', last'.resource))
                        >= Len(EntriesFor(queue, last'.resource)) - 1
                 /\ \A l \in locks' \ locks : l.resource = last'.resource
      ]_vars

\* a release of r1 has just promoted a caller queued for r1 while the first
\* entry of the queue is for r2, which is locked too
C38_Witness ==
    /\ Released(last)
    /\ last.resource = "r1"
    /\ \E l \in LocksOn(locks, "r1") : l.lockedBy # last.agentId
    /\ LocksOn(locks, "r2") # {}
    /\ queue # <<>>
    /\ queue[1].resource = "r2"

====
